---------------------------- MODULE Spec2Model ----------------------------
(***************************************************************************)
(* A model of vncx, a small RFB (VNC) client: src/vncx/client.py and       *)
(* src/vncx/protocol.py.                                                   *)
(*                                                                         *)
(* The client is single-threaded and blocks on its socket.  The model has  *)
(* one action for every stretch of code between two blocking reads, one    *)
(* action for every socket.recv inside _recv_all, and one action for the   *)
(* peer (the server) putting bytes on the wire.  Bytes are integers        *)
(* 0..255 and messages are sequences of bytes, packed and unpacked the way *)
(* struct.pack / struct.unpack do it.                                      *)
(*                                                                         *)
(* SpecConnect : the constructor VNCClient.__init__ / _connect             *)
(* Spec        : the operations of a connected session, one action for     *)
(*               each call (capture_screen: one for each attempt)          *)
(* SpecClip    : the compositing of one rectangle into the region array    *)
(***************************************************************************)
EXTENDS Integers, Sequences, FiniteSets, TLC

VARIABLES
    pc,             \* where the client is: the label of the read it is blocked in, or a terminal label
    password,       \* self.password, as bytes
    width,          \* self.width
    height,         \* self.height
    pixel_format,   \* self.pixel_format (a PixelFormat record, or NoPixelFormat for None)
    framebuffer,    \* self.framebuffer  (rows of RGB triples, or NoFrame for None)
    last_frame,     \* self._last_frame
    frame_updated,  \* self._frame_updated
    mouse_pos,      \* self._mouse_pos
    stream,         \* bytes the server has sent and the client has not yet received
    data,           \* _recv_all: the local `data`
    need,           \* _recv_all: the parameter `size`
    security_types, \* _connect: the local `security_types`
    rects_left,     \* the rectangle loops: iterations still to run
    log,            \* history: every send and every read the client started, in order
    exc,            \* the exception that left the constructor or the operation
    call,           \* the public operation in progress or just finished, with its arguments
    ret,            \* what that operation returned (a frame), or NoFrame
    attempt,        \* capture_screen: the loop variable `attempt`
    prev_frame,     \* history: self.framebuffer when the operation was called
    good_frame,     \* history: the valid cached frame when capture_screen was called, or NoFrame
    all_black,      \* history: every attempt of this capture_screen so far returned an all-black region
    rect,           \* the rectangle composited last: << x, y, width, height >>
    response,       \* history: the bytes the server sent in answer to the operation
    host_big_endian \* sys.byteorder == "big" on the host the client runs on

vars == << pc, password, width, height, pixel_format, framebuffer, last_frame,
           frame_updated, mouse_pos, stream, data, need, security_types,
           rects_left, log, exc, call, ret, attempt, prev_frame, good_frame,
           all_black, rect, response, host_big_endian >>

(***************************************************************************)
(* Bounds of the model.                                                    *)
(***************************************************************************)
\* longest security-type list the server offers
MaxTypes == 2
\* longest failure reason the server sends after a count byte of 0
MaxReason == 2
\* largest screen width and height the server announces
MaxDim == 2
\* most rectangles in one FramebufferUpdate
MaxRects == 1
\* the longest read asked of _recv_all
MaxRead == 4
\* the most messages a sequence of input operations sends
MaxEvents == 3

(***************************************************************************)
(* protocol.py: constants.                                                 *)
(***************************************************************************)
\* b"RFB 003.008\n"
RFB_VERSION_3_8 == << 82, 70, 66, 32, 48, 48, 51, 46, 48, 48, 56, 10 >>
SECURITY_NONE == 1
SECURITY_VNC_AUTH == 2
CLIENT_SET_ENCODINGS == 2
CLIENT_FRAMEBUFFER_UPDATE_REQUEST == 3
CLIENT_KEY_EVENT == 4
CLIENT_POINTER_EVENT == 5
SERVER_FRAMEBUFFER_UPDATE == 0
ENCODING_RAW == 0

(***************************************************************************)
(* struct.pack / struct.unpack, network byte order.                        *)
(***************************************************************************)
Min(a, b) == IF a < b THEN a ELSE b
Max(a, b) == IF a > b THEN a ELSE b

SubBytes(s, from, to) == [ i \in 1..(to - from + 1) |-> s[from + i - 1] ]
Take(s, k) == SubBytes(s, 1, k)
Drop(s, k) == SubBytes(s, k + 1, Len(s))

\* "!B"
PackU8(n) == << n % 256 >>
\* "!H"
PackU16(n) == << (n \div 256) % 256, n % 256 >>
\* "!I"
PackU32(n) == << (n \div 16777216) % 256, (n \div 65536) % 256, (n \div 256) % 256, n % 256 >>
\* "!i": two's complement (written without 2^32, which is no TLC integer)
PackI32(n) ==
    IF n >= 0 THEN PackU32(n)
    ELSE LET m == (n + 2147483647) + 1
         IN  << 128 + (m \div 16777216), (m \div 65536) % 256, (m \div 256) % 256, m % 256 >>
UnpackU16(b) == b[1] * 256 + b[2]
\* "!I", for values below 2^31
UnpackU32(b) == b[1] * 16777216 + b[2] * 65536 + b[3] * 256 + b[4]
UnpackI32(b) ==
    IF b[1] < 128 THEN UnpackU32(b)
    ELSE (((b[1] - 128) * 16777216 + b[2] * 65536 + b[3] * 256 + b[4]) - 2147483647) - 1

StartsWith(s, p) == Len(s) >= Len(p) /\ Take(s, Len(p)) = p

\* b"RFB"
RFB_MAGIC == << 82, 70, 66 >>

(***************************************************************************)
(* protocol.py: PixelFormat and the message packers.                       *)
(***************************************************************************)
NoPixelFormat == [ bits_per_pixel |-> -1 ]

\* PixelFormat.pack: "!BBBB HHH BBB xxx"
PixelFormatPack(pf) ==
    PackU8(pf.bits_per_pixel) \o PackU8(pf.depth) \o PackU8(pf.big_endian)
    \o PackU8(pf.true_colour) \o PackU16(pf.red_max) \o PackU16(pf.green_max)
    \o PackU16(pf.blue_max) \o PackU8(pf.red_shift) \o PackU8(pf.green_shift)
    \o PackU8(pf.blue_shift) \o << 0, 0, 0 >>

\* an unpack that reads the three maxima low byte first
PixelFormatUnpack_Mutant(d) ==
    [ bits_per_pixel |-> d[1], depth |-> d[2], big_endian |-> d[3],
      true_colour |-> d[4], red_max |-> d[6] * 256 + d[5],
      green_max |-> d[8] * 256 + d[7],
      blue_max |-> d[10] * 256 + d[9],
      red_shift |-> d[11], green_shift |-> d[12], blue_shift |-> d[13] ]

\* PixelFormat.unpack
PixelFormatUnpack(d) ==
    [ bits_per_pixel |-> d[1], depth |-> d[2], big_endian |-> d[3],
      true_colour |-> d[4], red_max |-> UnpackU16(SubBytes(d, 5, 6)),
      green_max |-> UnpackU16(SubBytes(d, 7, 8)),
      blue_max |-> UnpackU16(SubBytes(d, 9, 10)),
      red_shift |-> d[11], green_shift |-> d[12], blue_shift |-> d[13] ]

pack_client_init(shared) == PackU8(IF shared THEN 1 ELSE 0)

RECURSIVE PackEncodingIds(_)
PackEncodingIds(encodings) ==
    IF encodings = << >> THEN << >>
    ELSE PackI32(Head(encodings)) \o PackEncodingIds(Tail(encodings))

pack_set_encodings(encodings) ==
    PackU8(CLIENT_SET_ENCODINGS) \o << 0 >> \o PackU16(Len(encodings))
    \o PackEncodingIds(encodings)

pack_framebuffer_update_request(incremental, x, y, w, h) ==
    PackU8(CLIENT_FRAMEBUFFER_UPDATE_REQUEST) \o PackU8(IF incremental THEN 1 ELSE 0)
    \o PackU16(x) \o PackU16(y) \o PackU16(w) \o PackU16(h)

pack_key_event(down, key) ==
    PackU8(CLIENT_KEY_EVENT) \o PackU8(IF down THEN 1 ELSE 0) \o << 0, 0 >> \o PackU32(key)

pack_pointer_event(buttons, x, y) ==
    PackU8(CLIENT_POINTER_EVENT) \o PackU8(buttons) \o PackU16(x) \o PackU16(y)


(***************************************************************************)
(* client.py: frames.  A frame is a sequence of rows, a row a sequence of  *)
(* pixels, a pixel << r, g, b >> (numpy shape (height, width, 3)).         *)
(***************************************************************************)
Black == << 0, 0, 0 >>
\* np.zeros((h, w, 3), dtype=np.uint8)
Zeros(h, w) == [ r \in 1..h |-> [ c \in 1..w |-> Black ] ]
\* the value None of self.framebuffer and self._last_frame
NoFrame == << << << -1, -1, -1 >> >> >>

(***************************************************************************)
(* client.py: _reverse_bits and _vnc_auth's key and response.              *)
(***************************************************************************)
RECURSIVE ReverseBitsLoop(_, _, _)
ReverseBitsLoop(result, byte_val, i) ==
    IF i = 0 THEN result
    ELSE ReverseBitsLoop((result * 2) + (byte_val % 2), byte_val \div 2, i - 1)

reverse_bits(byte_val) == ReverseBitsLoop(0, byte_val, 8)

\* password.encode('utf-8')[:8].ljust(8, b'\x00'), each byte bit-reversed
VncKey(pw) == [ i \in 1..8 |-> reverse_bits(IF i <= Len(pw) THEN pw[i] ELSE 0) ]

\* _des_encrypt: the cipher is Crypto.Cipher.DES, a library outside the
\* repository.  Only what the client does around it is modelled: the data is
\* padded with zero bytes to a multiple of 8 and the result has that length.
\* The byte values stand in for the ciphertext.
des_encrypt(d, key) ==
    LET n == ((Len(d) + 7) \div 8) * 8
        padded == [ i \in 1..n |-> IF i <= Len(d) THEN d[i] ELSE 0 ]
    IN  [ i \in 1..n |-> (padded[i] + key[((i - 1) % 8) + 1]) % 256 ]

(***************************************************************************)
(* The history of the connection, as the peer and the caller see it.       *)
(***************************************************************************)
\* socket.send(bytes) returned
SendEv(bytes) == [ op |-> "send", label |-> "", bytes |-> bytes, n |-> Len(bytes) ]
\* _recv_with_timeout(n, label) was called
ReadEv(label, n) == [ op |-> "read", label |-> label, bytes |-> << >>, n |-> n ]
\* socket.recv(n) was called directly and returned bytes
RecvEv(label, n, bytes) == [ op |-> "recv", label |-> label, bytes |-> bytes, n |-> n ]
\* _request_initial_frame caught an exception and printed it
PrintEv(kind) == [ op |-> "print", label |-> kind, bytes |-> << >>, n |-> 0 ]

NoException == [ kind |-> "none", detail |-> << >> ]
\* no operation of the session has been called
NoCall == [ name |-> "none", x |-> 0, y |-> 0, w |-> 0, h |-> 0 ]

(***************************************************************************)
(* Where the client blocks.                                                *)
(***************************************************************************)
\* the labels of the _recv_with_timeout calls of _connect and _vnc_auth
ConnectReads == { "RFB version handshake", "security types length", "security types",
                  "VNC authentication challenge", "security result",
                  "server initialization", "server name" }
\* the labels of the _recv_with_timeout calls of _request_initial_frame
InitialFrameReads == { "initial framebuffer update response",
                       "initial rectangle header", "initial pixel data" }
\* the two bare socket.recv calls of _connect (the labels are the model's)
RawRecvs == { "failure reason length", "failure reason" }

\* _recv_with_timeout called on its own reads under its default label, "receive"
InRecvAll == pc \in (ConnectReads \cup InitialFrameReads \cup { "receive" })

sessionVars == << password, width, height, pixel_format, framebuffer, last_frame,
                  frame_updated, mouse_pos >>
\* what only the operations of a connected session use
opVars == << call, ret, attempt, prev_frame, good_frame, all_black, rect, response,
            host_big_endian >>

(***************************************************************************)
(* How a stretch of code ends: it raises, it blocks in the next read, or   *)
(* the constructor returns.  Inside _request_initial_frame's try block an  *)
(* exception is caught and printed, and the constructor returns.           *)
(***************************************************************************)
Raise(kind, detail, newlog) ==
    /\ data' = << >>
    /\ need' = 0
    /\ IF pc \in InitialFrameReads
       THEN /\ pc' = "done"
            /\ log' = Append(newlog, PrintEv(kind))
            /\ exc' = exc
       ELSE /\ pc' = "raised"
            /\ log' = newlog
            /\ exc' = [ kind |-> kind, detail |-> detail ]

StartRead(label, n, newlog) ==
    /\ pc' = label
    /\ data' = << >>
    /\ need' = n
    /\ log' = Append(newlog, ReadEv(label, n))
    /\ exc' = exc

StartRecv(label, n, newlog) ==
    /\ pc' = label
    /\ data' = << >>
    /\ need' = n
    /\ log' = newlog
    /\ exc' = exc

Return(newlog) ==
    /\ pc' = "done"
    /\ data' = << >>
    /\ need' = 0
    /\ log' = newlog
    /\ exc' = exc

(***************************************************************************)
(* The peer.  The client's code decides nothing here: these are the bytes  *)
(* a server may put on the wire while the client is blocked in a read, a   *)
(* small set for each read the client can be blocked in.                   *)
(***************************************************************************)
\* b"XFB 003.008\n": twelve bytes that do not start with "RFB"
BadVersion == << 88, 70, 66, 32, 48, 48, 51, 46, 48, 48, 56, 10 >>
\* security-type codes a server may offer: None, VNC Authentication, Tight
SecCodes == { SECURITY_NONE, SECURITY_VNC_AUTH, 16 }
SeqsUpTo(S, n) == UNION { [ 1..k -> S ] : k \in 0..n }
TypeLists == SeqsUpTo(SecCodes, MaxTypes) \ { << >> }
\* failure reasons: ASCII "A", "B"
Reasons == SeqsUpTo({ 65, 66 }, MaxReason)
Passwords == { << >>, << 112 >> }
Challenge == [ i \in 1..16 |-> i ]
Names == { << >>, << 120 >> }

PF32 == [ bits_per_pixel |-> 32, depth |-> 24, big_endian |-> 0, true_colour |-> 1,
          red_max |-> 255, green_max |-> 255, blue_max |-> 255,
          red_shift |-> 16, green_shift |-> 8, blue_shift |-> 0 ]
PF16 == [ bits_per_pixel |-> 16, depth |-> 16, big_endian |-> 0, true_colour |-> 1,
          red_max |-> 31, green_max |-> 63, blue_max |-> 31,
          red_shift |-> 11, green_shift |-> 5, blue_shift |-> 0 ]
ServerPixelFormats == { PF32, PF16 }

RECURSIVE Concat(_)
Concat(ss) == IF ss = << >> THEN << >> ELSE Head(ss) \o Concat(Tail(ss))

\* a FramebufferUpdate: header and rectangles (each: 12-byte header and payload)
UpdateHeader(msg_type, n) == PackU8(msg_type) \o << 0 >> \o PackU16(n)
RectHeader(x, y, w, h, encoding) ==
    PackU16(x) \o PackU16(y) \o PackU16(w) \o PackU16(h) \o PackI32(encoding)
UpdateMessage(rects) == UpdateHeader(SERVER_FRAMEBUFFER_UPDATE, Len(rects)) \o Concat(rects)

\* a full-screen raw rectangle of zero bytes, and a CopyRect rectangle (encoding 1,
\* payload: source x and y)
BlankRawRect == RectHeader(0, 0, width, height, ENCODING_RAW)
                \o [ i \in 1..(width * height * (pixel_format.bits_per_pixel \div 8)) |-> 0 ]
CopyRectRect == RectHeader(0, 0, width, height, 1) \o << 0, 0, 0, 0 >>
\* ServerCutText, one byte of text: a message that is no FramebufferUpdate
CutText == << 3, 0, 0, 0 >> \o PackU32(1) \o << 65 >>

InitialResponses ==
    { UpdateMessage(rs) : rs \in SeqsUpTo({ BlankRawRect, CopyRectRect }, MaxRects) }
    \cup { CutText }

ServerMessages ==
    CASE pc = "RFB version handshake" -> { RFB_VERSION_3_8, BadVersion }
      [] pc = "security types length" ->
            { PackU8(Len(t)) \o t : t \in TypeLists }
            \cup { PackU8(0) \o PackU32(Len(r)) \o r : r \in Reasons }
            \cup { PackU8(0) }
      [] pc = "failure reason length" ->
            { PackU32(Len(r)) \o r : r \in Reasons } \cup { PackU32(1) }
      [] pc = "VNC authentication challenge" -> { Challenge }
      [] pc = "security result" -> { PackU32(0), PackU32(1) }
      [] pc = "server initialization" ->
            { PackU16(w) \o PackU16(h) \o PixelFormatPack(pf) \o PackU32(Len(nm)) \o nm :
                w \in 1..MaxDim, h \in 1..MaxDim, pf \in ServerPixelFormats, nm \in Names }
      [] pc = "initial framebuffer update response" -> InitialResponses
      [] OTHER -> { }

(***************************************************************************)
(* client.py: _recv_all and _recv_with_timeout.  Each socket.recv is one   *)
(* step: it returns between 1 and size - len(data) of the bytes that have  *)
(* arrived, b"" when the peer has closed, or times out.                    *)
(***************************************************************************)
ServerSend ==
    /\ pc \in (ConnectReads \cup InitialFrameReads \cup RawRecvs)
    /\ stream = << >>
    /\ pc \in RawRecvs \/ Len(data) < need
    /\ \E m \in ServerMessages : stream' = m
    /\ UNCHANGED << pc, data, need, log, exc, sessionVars, security_types, rects_left, opVars >>

\* a recv that asks for size bytes whatever it already has
RecvChunk_Mutant ==
    /\ InRecvAll
    /\ Len(data) < need
    /\ stream # << >>
    /\ \E k \in 1..Min(need, Len(stream)) :
          /\ data' = data \o Take(stream, k)
          /\ stream' = Drop(stream, k)
    /\ UNCHANGED << pc, need, log, exc, sessionVars, security_types, rects_left, opVars >>

\* chunk = self.socket.recv(size - len(data)); data += chunk
RecvChunk ==
    /\ InRecvAll
    /\ Len(data) < need
    /\ stream # << >>
    /\ \E k \in 1..Min(need - Len(data), Len(stream)) :
          /\ data' = data \o Take(stream, k)
          /\ stream' = Drop(stream, k)
    /\ UNCHANGED << pc, need, log, exc, sessionVars, security_types, rects_left, opVars >>

\* chunk == b"": "Connection closed unexpectedly"
RecvClosed ==
    /\ InRecvAll
    /\ Len(data) < need
    /\ stream = << >>
    /\ Raise("ConnectionClosed", << >>, log)
    /\ UNCHANGED << stream, sessionVars, security_types, rects_left, opVars >>

\* time.time() - start_time > self.timeout
RecvTimeout ==
    /\ InRecvAll
    /\ Len(data) < need
    /\ Raise("Timeout", << >>, log)
    /\ UNCHANGED << stream, sessionVars, security_types, rects_left, opVars >>

\* the read the client is blocked in has returned `data`
ReadDone(label) == pc = label /\ Len(data) = need

(***************************************************************************)
(* client.py: VNCClient.__init__ and _connect.                             *)
(***************************************************************************)
Range(f) == { f[i] : i \in DOMAIN f }

\* the log after the first k of msgs were sent
Sends(msgs, k) == log \o [ i \in 1..k |-> SendEv(msgs[i]) ]

\* send msgs in order, then block in the read `label` of n bytes; a socket.send
\* that raises ends the constructor
SendThenRead(msgs, label, n) ==
    \/ \E j \in 1..Len(msgs) : Raise("SendFailed", << >>, Sends(msgs, j - 1))
    \/ StartRead(label, n, Sends(msgs, Len(msgs)))

InitConnect ==
    /\ pc = "connect"
    /\ password \in Passwords
    /\ width = 0
    /\ height = 0
    /\ pixel_format = NoPixelFormat
    /\ framebuffer = NoFrame
    /\ last_frame = NoFrame
    /\ frame_updated = FALSE
    /\ mouse_pos = << 0, 0 >>
    /\ stream = << >>
    /\ data = << >>
    /\ need = 0
    /\ security_types = << >>
    /\ rects_left = 0
    /\ log = << >>
    /\ exc = NoException
    /\ call = NoCall
    /\ ret = NoFrame
    /\ attempt = 0
    /\ prev_frame = NoFrame
    /\ good_frame = NoFrame
    /\ all_black = TRUE
    /\ rect = << 0, 0, 0, 0 >>
    /\ response = << >>
    /\ host_big_endian = FALSE

\* socket.connect, then the read of the server's version
Connect ==
    /\ pc = "connect"
    /\ \/ Raise("ConnectFailed", << >>, log)
       \/ StartRead("RFB version handshake", 12, log)
    /\ UNCHANGED << stream, sessionVars, security_types, rects_left, opVars >>

\* server_version.startswith(b"RFB"), send the client's version
VersionExchange ==
    /\ ReadDone("RFB version handshake")
    /\ IF ~StartsWith(data, RFB_MAGIC)
       THEN Raise("BadMagic", << >>, log)
       ELSE SendThenRead(<< RFB_VERSION_3_8 >>, "security types length", 1)
    /\ UNCHANGED << stream, sessionVars, security_types, rects_left, opVars >>

\* security_types_length: 0 is the server's refusal, followed by a reason
SecurityTypesLength ==
    /\ ReadDone("security types length")
    /\ IF data[1] = 0
       THEN StartRecv("failure reason length", 4, log)
       ELSE StartRead("security types", data[1], log)
    /\ UNCHANGED << stream, sessionVars, security_types, rects_left, opVars >>

\* struct.unpack("!I", self.socket.recv(4)): one recv, whatever it returns
RecvReasonLength ==
    /\ pc = "failure reason length"
    /\ \/ /\ stream # << >>
          /\ \E k \in 1..Min(4, Len(stream)) :
                LET got == Take(stream, k)
                    newlog == Append(log, RecvEv("failure reason length", 4, got))
                IN  /\ stream' = Drop(stream, k)
                    /\ IF k = 4
                       THEN StartRecv("failure reason", UnpackU32(got), newlog)
                       ELSE Raise("StructError", << >>, newlog)
       \/ /\ stream = << >>
          /\ stream' = stream
          /\ \/ Raise("StructError", << >>,
                      Append(log, RecvEv("failure reason length", 4, << >>)))
             \/ Raise("Timeout", << >>, log)
    /\ UNCHANGED << sessionVars, security_types, rects_left, opVars >>

\* self.socket.recv(reason_length).decode('utf-8'): one recv, whatever it returns
RecvReason ==
    /\ pc = "failure reason"
    /\ \/ /\ stream # << >>
          /\ need > 0
          /\ \E k \in 1..Min(need, Len(stream)) :
                LET got == Take(stream, k)
                IN  /\ stream' = Drop(stream, k)
                    /\ Raise("ServerRejected", got,
                             Append(log, RecvEv("failure reason", need, got)))
       \/ /\ stream = << >> \/ need = 0
          /\ stream' = stream
          /\ Raise("ServerRejected", << >>,
                   Append(log, RecvEv("failure reason", need, << >>)))
       \/ /\ stream = << >>
          /\ need > 0
          /\ stream' = stream
          /\ Raise("Timeout", << >>, log)
    /\ UNCHANGED << sessionVars, security_types, rects_left, opVars >>

\* a client that prefers VNC Authentication
SelectSecurityType_Mutant(types) ==
    IF SECURITY_VNC_AUTH \in Range(types) THEN SECURITY_VNC_AUTH
    ELSE IF SECURITY_NONE \in Range(types) THEN SECURITY_NONE
    ELSE 0

\* lines 54-62: 1 for None, 2 for VNC Authentication, 0 for "No supported security type"
SelectSecurityType(types) ==
    IF SECURITY_NONE \in Range(types) THEN SECURITY_NONE
    ELSE IF SECURITY_VNC_AUTH \in Range(types) THEN SECURITY_VNC_AUTH
    ELSE 0

\* a client that forgets the password check
PasswordMissing_Mutant(pw) == FALSE

\* line 57: not self.password
PasswordMissing(pw) == pw = << >>

\* line 64: SECURITY_VNC_AUTH in security_types and self.password
ReadsSecurityResult(types, pw) == SECURITY_VNC_AUTH \in Range(types) /\ pw # << >>

\* a client that asks for exclusive access
ClientInitMessage_Mutant == pack_client_init(FALSE)

\* line 69: pack_client_init(shared=True)
ClientInitMessage == pack_client_init(TRUE)

\* lines 63-71, after msgs: the SecurityResult read, or ClientInit and the ServerInit read
AfterSecurity(types, msgs) ==
    IF ReadsSecurityResult(types, password)
    THEN SendThenRead(msgs, "security result", 4)
    ELSE SendThenRead(msgs \o << ClientInitMessage >>, "server initialization", 24)

SecuritySelect ==
    /\ ReadDone("security types")
    /\ security_types' = data
    /\ LET sel == SelectSecurityType(data)
       IN  IF sel = SECURITY_NONE
           THEN AfterSecurity(data, << PackU8(SECURITY_NONE) >>)
           ELSE IF sel = SECURITY_VNC_AUTH
           THEN IF PasswordMissing(password)
                THEN Raise("PasswordRequired", << >>, log)
                ELSE SendThenRead(<< PackU8(SECURITY_VNC_AUTH) >>,
                                  "VNC authentication challenge", 16)
           ELSE Raise("Unsupported", << >>, log)
    /\ UNCHANGED << stream, sessionVars, rects_left, opVars >>

\* _vnc_auth after the challenge has arrived, then lines 63-71
VncAuth ==
    /\ ReadDone("VNC authentication challenge")
    /\ AfterSecurity(security_types, << des_encrypt(data, VncKey(password)) >>)
    /\ UNCHANGED << stream, sessionVars, security_types, rects_left, opVars >>

\* lines 65-71
SecurityResult ==
    /\ ReadDone("security result")
    /\ IF UnpackU32(data) # 0
       THEN Raise("Rejected", << >>, log)
       ELSE SendThenRead(<< ClientInitMessage >>, "server initialization", 24)
    /\ UNCHANGED << stream, sessionVars, security_types, rects_left, opVars >>

\* lines 71-78
ServerInit ==
    /\ ReadDone("server initialization")
    /\ width' = UnpackU16(SubBytes(data, 1, 2))
    /\ height' = UnpackU16(SubBytes(data, 3, 4))
    /\ pixel_format' = PixelFormatUnpack(SubBytes(data, 5, 20))
    /\ StartRead("server name", UnpackU32(SubBytes(data, 21, 24)), log)
    /\ UNCHANGED << stream, password, framebuffer, last_frame, frame_updated, mouse_pos,
                    security_types, rects_left, opVars >>

\* line 81: pack_set_encodings([ENCODING_RAW])
SetEncodingsMessage == pack_set_encodings(<< ENCODING_RAW >>)

\* line 386: pack_framebuffer_update_request(False, 0, 0, self.width, self.height)
InitialRequest == pack_framebuffer_update_request(FALSE, 0, 0, width, height)

\* lines 78-86 and 386-390: SetEncodings, the framebuffer, the initial request.
\* The request's send is outside _request_initial_frame's try block.
ServerName ==
    /\ ReadDone("server name")
    /\ \/ /\ Raise("SendFailed", << >>, log)
          /\ UNCHANGED << framebuffer, last_frame >>
       \/ /\ framebuffer' = Zeros(height, width)
          /\ last_frame' = Zeros(height, width)
          /\ \/ Raise("SendFailed", << >>, Append(log, SendEv(SetEncodingsMessage)))
             \/ StartRead("initial framebuffer update response", 4,
                          log \o << SendEv(SetEncodingsMessage), SendEv(InitialRequest) >>)
    /\ UNCHANGED << stream, password, width, height, pixel_format, frame_updated,
                    mouse_pos, security_types, rects_left, opVars >>

\* for _ in range(num_rectangles), with n iterations still to run
InitialLoop(n) ==
    /\ rects_left' = n
    /\ IF n = 0
       THEN Return(log)
       ELSE StartRead("initial rectangle header", 12, log)

\* lines 391-395
InitialHeader ==
    /\ ReadDone("initial framebuffer update response")
    /\ IF data[1] # SERVER_FRAMEBUFFER_UPDATE
       THEN Return(log) /\ rects_left' = rects_left
       ELSE InitialLoop(UnpackU16(SubBytes(data, 3, 4)))
    /\ UNCHANGED << stream, sessionVars, security_types, opVars >>

\* lines 397-406: a raw rectangle's payload is read and dropped, any other
\* rectangle is passed over
InitialRectHeader ==
    /\ ReadDone("initial rectangle header")
    /\ LET rect_width == UnpackU16(SubBytes(data, 5, 6))
           rect_height == UnpackU16(SubBytes(data, 7, 8))
           encoding == UnpackI32(SubBytes(data, 9, 12))
           bytes_per_pixel == pixel_format.bits_per_pixel \div 8
       IN  IF encoding = ENCODING_RAW
           THEN /\ StartRead("initial pixel data",
                             rect_width * rect_height * bytes_per_pixel, log)
                /\ rects_left' = rects_left
           ELSE InitialLoop(rects_left - 1)
    /\ UNCHANGED << stream, sessionVars, security_types, opVars >>

InitialPixelData ==
    /\ ReadDone("initial pixel data")
    /\ InitialLoop(rects_left - 1)
    /\ UNCHANGED << stream, sessionVars, security_types, opVars >>

NextConnect ==
    \/ Connect
    \/ VersionExchange
    \/ SecurityTypesLength
    \/ RecvReasonLength
    \/ RecvReason
    \/ SecuritySelect
    \/ VncAuth
    \/ SecurityResult
    \/ ServerInit
    \/ ServerName
    \/ InitialHeader
    \/ InitialRectHeader
    \/ InitialPixelData
    \/ ServerSend
    \/ RecvChunk
    \/ RecvClosed
    \/ RecvTimeout

SpecConnect == InitConnect /\ [][NextConnect]_vars

(***************************************************************************)
(* Reading the history.                                                    *)
(***************************************************************************)
IsSend(e) == e.op = "send"
\* the messages sent so far, in order
SentBytes == LET ev == SelectSeq(log, IsSend) IN [ i \in 1..Len(ev) |-> ev[i].bytes ]
HasRead(label) == \E i \in DOMAIN log : log[i].op = "read" /\ log[i].label = label
HasSent(bytes) == \E i \in DOMAIN log : log[i].op = "send" /\ log[i].bytes = bytes
\* the position of the first read with this label (0: none)
ReadPos(label) ==
    IF HasRead(label)
    THEN CHOOSE i \in DOMAIN log :
            /\ log[i].op = "read" /\ log[i].label = label
            /\ \A j \in 1..(i - 1) : ~(log[j].op = "read" /\ log[j].label = label)
    ELSE 0
\* the position of the first send of these bytes at or after position from (0: none)
SendPos(bytes, from) ==
    IF \E i \in from..Len(log) : log[i].op = "send" /\ log[i].bytes = bytes
    THEN CHOOSE i \in from..Len(log) :
            /\ log[i].op = "send" /\ log[i].bytes = bytes
            /\ \A j \in from..(i - 1) : ~(log[j].op = "send" /\ log[j].bytes = bytes)
    ELSE 0
\* the security selection is what the client sends right after it has read the list
SelectionPos ==
    LET p == ReadPos("security types")
    IN  IF p > 0 /\ p < Len(log) /\ log[p + 1].op = "send" THEN p + 1 ELSE 0
\* the selected security type (0: no selection byte was sent)
Selection == IF SelectionPos = 0 THEN 0 ELSE log[SelectionPos].bytes[1]
\* the list the server offered has been read and acted on
Offered == Range(security_types)

(***************************************************************************)
(* C1.  A list offering VNC Authentication (2) and not None (1), with an   *)
(* empty password: the constructor raises PasswordRequired, the only       *)
(* message it has sent is the version string (no selection byte), no read  *)
(* of the challenge was started, and the constructor never returns.        *)
(***************************************************************************)
C1_PasswordRequired ==
    (/\ security_types # << >>
     /\ SECURITY_VNC_AUTH \in Offered
     /\ SECURITY_NONE \notin Offered
     /\ password = << >>)
    => /\ pc = "raised"
       /\ exc.kind = "PasswordRequired"
       /\ SentBytes = << RFB_VERSION_3_8 >>
       /\ ~HasRead("VNC authentication challenge")

C1_Witness ==
    /\ security_types = << 16, 2 >>
    /\ password = << >>
    /\ exc.kind = "PasswordRequired"

(***************************************************************************)
(* C2.  The SecurityResult is read only when VNC Authentication was        *)
(* selected; when None was selected the event right after the selection    *)
(* byte is the send of ClientInit.                                         *)
(***************************************************************************)
C2_ResultOnlyForVncAuth ==
    /\ HasRead("security result") => Selection = SECURITY_VNC_AUTH
    /\ (Selection = SECURITY_NONE /\ SelectionPos < Len(log))
          => log[SelectionPos + 1] = SendEv(<< 1 >>)

(***************************************************************************)
(* C3.  Once the offered list has been read: None (1) is selected whenever *)
(* 1 is in the list; VNC Authentication (2) is selected only when 2 is in  *)
(* the list and 1 is not; with neither in the list the constructor raises  *)
(* Unsupported and no selection byte is sent.  (A selection is not sent    *)
(* when its socket.send raises, or when the password is missing.)          *)
(***************************************************************************)
C3_SelectionPolicy ==
    security_types # << >> =>
      /\ SECURITY_NONE \in Offered =>
            \/ Selection = SECURITY_NONE
            \/ Selection = 0 /\ exc.kind = "SendFailed"
      /\ (SECURITY_NONE \notin Offered /\ SECURITY_VNC_AUTH \in Offered) =>
            \/ Selection = SECURITY_VNC_AUTH
            \/ Selection = 0 /\ exc.kind \in { "SendFailed", "PasswordRequired" }
      /\ (SECURITY_NONE \notin Offered /\ SECURITY_VNC_AUTH \notin Offered) =>
            /\ Selection = 0
            /\ pc = "raised"
            /\ exc.kind = "Unsupported"
            /\ SentBytes = << RFB_VERSION_3_8 >>

C3_Witness ==
    /\ security_types = << 2, 1 >>
    /\ password # << >>
    /\ Selection = SECURITY_NONE

(***************************************************************************)
(* C4.  When the constructor has returned, the messages it sent are, in    *)
(* order: the version string, the selection byte, the 16-byte response     *)
(* (exactly when 2 was selected), ClientInit with shared flag 1,           *)
(* SetEncodings with the one encoding 0, and one non-incremental request   *)
(* for (0, 0, width, height).  The version was sent after the 12-byte      *)
(* version read, the response after the challenge read, SetEncodings after *)
(* the ServerInit and server-name reads; and whenever SetEncodings has     *)
(* been sent, width, height and pixel format are stored.                   *)
(***************************************************************************)
C4_ExpectedTail ==
    << << 1 >>,
       << 2, 0, 0, 1, 0, 0, 0, 0 >>,
       << 3, 0, 0, 0, 0, 0 >> \o PackU16(width) \o PackU16(height) >>

C4_SendOrder ==
    /\ HasSent(<< 2, 0, 0, 1, 0, 0, 0, 0 >>) =>
          /\ pixel_format \in ServerPixelFormats
          /\ width \in 1..MaxDim
          /\ height \in 1..MaxDim
    /\ pc = "done" =>
          /\ log[1] = ReadEv("RFB version handshake", 12)
          /\ log[2] = SendEv(RFB_VERSION_3_8)
          /\ SentBytes[1] = RFB_VERSION_3_8
          /\ SentBytes[2] = << Selection >>
          /\ Selection \in { SECURITY_NONE, SECURITY_VNC_AUTH }
          /\ IF Selection = SECURITY_VNC_AUTH
             THEN /\ Len(SentBytes) = 6
                  /\ Len(SentBytes[3]) = 16
                  /\ SubBytes(SentBytes, 4, 6) = C4_ExpectedTail
                  /\ log[SelectionPos + 1] = ReadEv("VNC authentication challenge", 16)
                  /\ log[SelectionPos + 2].op = "send"
             ELSE /\ Len(SentBytes) = 5
                  /\ SubBytes(SentBytes, 3, 5) = C4_ExpectedTail
                  /\ ~HasRead("VNC authentication challenge")
          /\ LET se == SendPos(<< 2, 0, 0, 1, 0, 0, 0, 0 >>, 1)
             IN  /\ se > 2
                 /\ log[se - 2].op = "read" /\ log[se - 2].label = "server initialization"
                 /\ log[se - 2].n = 24
                 /\ log[se - 1].op = "read" /\ log[se - 1].label = "server name"
                 /\ log[se + 1].op = "send"
                 /\ log[se + 2] = ReadEv("initial framebuffer update response", 4)

C4_Witness ==
    /\ pc = "done"
    /\ Selection = SECURITY_VNC_AUTH
    /\ Len(SentBytes) = 6
    /\ width = 2 /\ height = 1

(***************************************************************************)
(* C5.  After a count byte of 0, whenever the server's bytes arrive (no    *)
(* recv finds the connection closed or times out), however they are split  *)
(* into chunks: the constructor raises ServerRejected, having read 4 bytes *)
(* of length L and then L bytes of reason, and the exception carries all L *)
(* bytes.                                                                  *)
(***************************************************************************)
C5_FullReason ==
    (/\ pc = "raised"
     /\ \E i \in DOMAIN log : log[i].op = "recv"
     /\ exc.kind # "Timeout"
     /\ \A i \in DOMAIN log : log[i].op = "recv" => (log[i].bytes # << >> \/ log[i].n = 0))
    => /\ exc.kind = "ServerRejected"
       /\ log[Len(log)].label = "failure reason"
       /\ Len(log[Len(log)].bytes) = log[Len(log)].n
       /\ exc.detail = log[Len(log)].bytes
       /\ Len(log[Len(log) - 1].bytes) = 4

(***************************************************************************)
(* C6.  Once SetEncodings has been sent, nothing in the initial update     *)
(* exchange makes the constructor raise: it returns with width, height and *)
(* pixel format stored and the framebuffer allocated.                      *)
(***************************************************************************)
C6_InitialFrameBestEffort ==
    HasSent(<< 2, 0, 0, 1, 0, 0, 0, 0 >>) =>
      /\ pc # "raised"
      /\ pc = "done" =>
            /\ framebuffer = Zeros(height, width)
            /\ pixel_format \in ServerPixelFormats

(***************************************************************************)
(* client.py: _parse_raw_pixels.  d is the payload of a raw rectangle of   *)
(* w x h pixels; the result is h rows of w RGB triples.                    *)
(***************************************************************************)
\* np.frombuffer(dtype=np.uint16) reads in the byte order of the host
HostBigEndian == host_big_endian

\* a decoder that keeps the order of the first three bytes
ParseRawPixels_Mutant(d, w, h, bytes_per_pixel) ==
    [ r \in 1..h |-> [ c \in 1..w |->
        LET off == bytes_per_pixel * ((r - 1) * w + (c - 1))
        IN  CASE bytes_per_pixel = 4 -> << d[off + 1], d[off + 2], d[off + 3] >>
              [] bytes_per_pixel = 3 -> << d[off + 1], d[off + 2], d[off + 3] >>
              [] bytes_per_pixel = 2 ->
                    LET v == IF HostBigEndian THEN d[off + 1] * 256 + d[off + 2]
                                              ELSE d[off + 2] * 256 + d[off + 1]
                    IN  << (v \div 2048) * 8, ((v \div 32) % 64) * 4, (v % 32) * 8 >> ] ]

ParseRawPixels(d, w, h, bytes_per_pixel) ==
    [ r \in 1..h |-> [ c \in 1..w |->
        LET off == bytes_per_pixel * ((r - 1) * w + (c - 1))
        IN  CASE bytes_per_pixel = 4 -> << d[off + 3], d[off + 2], d[off + 1] >>
              [] bytes_per_pixel = 3 -> << d[off + 1], d[off + 2], d[off + 3] >>
              [] bytes_per_pixel = 2 ->
                    LET v == IF HostBigEndian THEN d[off + 1] * 256 + d[off + 2]
                                              ELSE d[off + 2] * 256 + d[off + 1]
                    IN  << (v \div 2048) * 8, ((v \div 32) % 64) * 4, (v % 32) * 8 >> ] ]

\* np.any(frame != 0) is false
AllBlack(frame) ==
    \A r \in DOMAIN frame : \A c \in DOMAIN frame[r] : frame[r][c] = Black

(***************************************************************************)
(* client.py: capture_region, lines 204-216: one decoded rectangle is      *)
(* copied into region_data, clipped to the requested region.  Rows and     *)
(* columns are 0-based in the code and 1-based here.                       *)
(***************************************************************************)
\* a compositing that drops the source offset of a rectangle starting before the region
Composite_Mutant(region_data, x, y, w, h, rect_x, rect_y, rect_width, rect_height, pixels) ==
    LET end_y == Min(rect_y + rect_height - y, h)
        end_x == Min(rect_x + rect_width - x, w)
        start_y == Max(rect_y - y, 0)
        start_x == Max(rect_x - x, 0)
    IN  IF start_y < end_y /\ start_x < end_x
        THEN [ i \in 1..h |-> [ j \in 1..w |->
                  IF /\ start_y < i /\ i <= end_y
                     /\ start_x < j /\ j <= end_x
                  THEN pixels[i - start_y][j - start_x]
                  ELSE region_data[i][j] ] ]
        ELSE region_data

Composite(region_data, x, y, w, h, rect_x, rect_y, rect_width, rect_height, pixels) ==
    LET end_y == Min(rect_y + rect_height - y, h)
        end_x == Min(rect_x + rect_width - x, w)
        start_y == Max(rect_y - y, 0)
        start_x == Max(rect_x - x, 0)
    IN  IF start_y < end_y /\ start_x < end_x
        THEN LET src_start_y == Max(y - rect_y, 0)
                 src_start_x == Max(x - rect_x, 0)
             IN  [ i \in 1..h |-> [ j \in 1..w |->
                    IF /\ start_y < i /\ i <= end_y
                       /\ start_x < j /\ j <= end_x
                    THEN pixels[src_start_y + (i - start_y)][src_start_x + (j - start_x)]
                    ELSE region_data[i][j] ] ]
        ELSE region_data

(***************************************************************************)
(* client.py: capture_region, lines 220-247: the region is merged into     *)
(* self.framebuffer and self._last_frame.                                  *)
(***************************************************************************)
\* a test that forgets the height
IsFullScreen_Mutant(x, y, w, h) == x = 0 /\ y = 0 /\ w = width

\* line 221
IsFullScreen(x, y, w, h) == x = 0 /\ y = 0 /\ w = width /\ h = height

\* a merge that copies black pixels too
MergeInto_Mutant(frame, x, y, w, h, region_data) ==
    LET end_y == Min(y + h, height)
        end_x == Min(x + w, width)
    IN  [ r \in 1..Len(frame) |-> [ c \in 1..Len(frame[r]) |->
            IF y < r /\ r <= end_y /\ x < c /\ c <= end_x
            THEN region_data[r - y][c - x]
            ELSE frame[r][c] ] ]

\* lines 234-243: frame[y:end_y, x:end_x][non_black_mask] = region_slice[non_black_mask]
MergeInto(frame, x, y, w, h, region_data) ==
    LET end_y == Min(y + h, height)
        end_x == Min(x + w, width)
    IN  [ r \in 1..Len(frame) |-> [ c \in 1..Len(frame[r]) |->
            IF /\ y < r /\ r <= end_y /\ x < c /\ c <= end_x
               /\ region_data[r - y][c - x] # Black
            THEN region_data[r - y][c - x]
            ELSE frame[r][c] ] ]

\* lines 236-241: the slice of the region inside the screen has a non-black pixel
AnyNonBlack(x, y, w, h, region_data) ==
    \E r \in (y + 1)..Min(y + h, height) : \E c \in (x + 1)..Min(x + w, width) :
        region_data[r - y][c - x] # Black

\* a merge that replaces the framebuffer by any region that covers the screen
MergeFrame_Mutant(x, y, w, h, region_data) ==
    IF x = 0 /\ y = 0 /\ w >= width /\ h >= height
    THEN [ framebuffer |-> region_data, last_frame |-> region_data, frame_updated |-> TRUE ]
    ELSE IF AnyNonBlack(x, y, w, h, region_data)
    THEN [ framebuffer |-> MergeInto(framebuffer, x, y, w, h, region_data),
           last_frame |-> MergeInto(last_frame, x, y, w, h, region_data),
           frame_updated |-> TRUE ]
    ELSE [ framebuffer |-> framebuffer, last_frame |-> last_frame,
           frame_updated |-> frame_updated ]

\* lines 220-247 (self.framebuffer and self._last_frame are not None after construction)
MergeFrame(x, y, w, h, region_data) ==
    IF IsFullScreen(x, y, w, h)
    THEN [ framebuffer |-> region_data, last_frame |-> region_data, frame_updated |-> TRUE ]
    ELSE IF AnyNonBlack(x, y, w, h, region_data)
    THEN [ framebuffer |-> MergeInto(framebuffer, x, y, w, h, region_data),
           last_frame |-> MergeInto(last_frame, x, y, w, h, region_data),
           frame_updated |-> TRUE ]
    ELSE [ framebuffer |-> framebuffer, last_frame |-> last_frame,
           frame_updated |-> frame_updated ]

(***************************************************************************)
(* client.py: capture_region as a whole.  s is what the socket delivers    *)
(* during the call: every _recv_with_timeout(n) returns the next n bytes   *)
(* of s, or raises fail_kind when s ends first.  The value is a record:    *)
(* the exception or the returned array, the bytes left unread, the events, *)
(* and the new framebuffer, cache and flag.                                *)
(***************************************************************************)
Raised(kind, rest, events) ==
    [ exc |-> [ kind |-> kind, detail |-> << >> ], ret |-> NoFrame, rest |-> rest,
      events |-> events, framebuffer |-> framebuffer, last_frame |-> last_frame,
      frame_updated |-> frame_updated ]

\* a test that takes CopyRect for raw
IsRaw_Mutant(encoding) == encoding \in { ENCODING_RAW, 1 }

\* line 193
IsRaw(encoding) == encoding = ENCODING_RAW

\* lines 188-218: for _ in range(num_rectangles), with n iterations still to run
RECURSIVE RectLoop(_, _, _, _, _, _, _, _, _)
RectLoop(n, s, region_data, events, x, y, w, h, fail_kind) ==
    IF n = 0
    THEN [ exc |-> NoException, ret |-> region_data, rest |-> s, events |-> events ]
    ELSE
    LET ev1 == Append(events, ReadEv("rectangle header", 12))
    IN  IF Len(s) < 12
        THEN [ exc |-> [ kind |-> fail_kind, detail |-> << >> ], ret |-> region_data,
               rest |-> << >>, events |-> ev1 ]
        ELSE
        LET rect_x == UnpackU16(SubBytes(s, 1, 2))
            rect_y == UnpackU16(SubBytes(s, 3, 4))
            rect_width == UnpackU16(SubBytes(s, 5, 6))
            rect_height == UnpackU16(SubBytes(s, 7, 8))
            encoding == UnpackI32(SubBytes(s, 9, 12))
            s1 == Drop(s, 12)
            bytes_per_pixel == pixel_format.bits_per_pixel \div 8
            pixel_data_size == rect_width * rect_height * bytes_per_pixel
            ev2 == Append(ev1, ReadEv("pixel data", pixel_data_size))
        IN  IF ~IsRaw(encoding)
            THEN [ exc |-> [ kind |-> "UnsupportedEncoding", detail |-> << >> ],
                   ret |-> region_data, rest |-> s1, events |-> ev1 ]
            ELSE IF Len(s1) < pixel_data_size
            THEN [ exc |-> [ kind |-> fail_kind, detail |-> << >> ], ret |-> region_data,
                   rest |-> << >>, events |-> ev2 ]
            ELSE IF bytes_per_pixel \notin { 2, 3, 4 }
            THEN [ exc |-> [ kind |-> "UnsupportedPixelFormat", detail |-> << >> ],
                   ret |-> region_data, rest |-> Drop(s1, pixel_data_size), events |-> ev2 ]
            ELSE RectLoop(n - 1, Drop(s1, pixel_data_size),
                          Composite(region_data, x, y, w, h,
                                    rect_x, rect_y, rect_width, rect_height,
                                    ParseRawPixels(Take(s1, pixel_data_size),
                                                   rect_width, rect_height, bytes_per_pixel)),
                          ev2, x, y, w, h, fail_kind)

\* line 176: the request is incremental
UpdateRequest(x, y, w, h) == pack_framebuffer_update_request(TRUE, x, y, w, h)

capture_region(x, y, w, h, s, send_fails, fail_kind) ==
    IF send_fails THEN Raised("SendFailed", s, << >>)
    ELSE
    LET ev0 == << SendEv(UpdateRequest(x, y, w, h)),
                  ReadEv("framebuffer update response", 4) >>
    IN  IF Len(s) < 4 THEN Raised(fail_kind, << >>, ev0)
        ELSE IF s[1] # SERVER_FRAMEBUFFER_UPDATE
        THEN Raised("UnexpectedMessage", Drop(s, 4), ev0)
        ELSE
        LET loop == RectLoop(UnpackU16(SubBytes(s, 3, 4)), Drop(s, 4), Zeros(h, w),
                             ev0, x, y, w, h, fail_kind)
            merged == MergeFrame(x, y, w, h, loop.ret)
        IN  IF loop.exc # NoException
            THEN Raised(loop.exc.kind, loop.rest, loop.events)
            ELSE [ exc |-> NoException, ret |-> loop.ret, rest |-> loop.rest,
                   events |-> loop.events, framebuffer |-> merged.framebuffer,
                   last_frame |-> merged.last_frame,
                   frame_updated |-> merged.frame_updated ]

(***************************************************************************)
(* The peer of a connected session: what a server may answer to an update  *)
(* request for (x, y, w, h).  Pixels are 32-bit, on the wire B, G, R, X.   *)
(***************************************************************************)
\* black, red, blue
WirePixels == << << 0, 0, 0, 0 >>, << 0, 0, 255, 255 >>, << 255, 0, 0, 255 >> >>
\* content k of a rectangle: one colour (k = 0, 1, 2) or diagonal stripes (k = 3, 4, 5)
WireColour(k, r, c) == WirePixels[(IF k < 3 THEN k ELSE (r + c + k) % 3) + 1]
Payload(w, h, k) ==
    Concat([ i \in 1..(w * h) |-> WireColour(k, (i - 1) \div w, (i - 1) % w) ])
RawRect(x, y, w, h, k) == RectHeader(x, y, w, h, ENCODING_RAW) \o Payload(w, h, k)

\* the rectangles of an answer: the requested region (striped), the whole
\* screen (striped), or a CopyRect
RectsFor(x, y, w, h) ==
    { RawRect(x, y, w, h, k) : k \in { 3, 4 } }
    \cup { RawRect(0, 0, width, height, 5), CopyRectRect }

\* an update that announces one rectangle more than it carries
TruncatedUpdate(rects) ==
    UpdateHeader(SERVER_FRAMEBUFFER_UPDATE, Len(rects) + 1) \o Concat(rects)

\* an update of up to MaxRects rectangles; an update that stops after up to
\* MaxRects raw rectangles, one short; a message of another type; nothing at all
ResponsesFor(x, y, w, h) ==
    { UpdateMessage(rs) : rs \in SeqsUpTo(RectsFor(x, y, w, h), MaxRects) }
    \cup { TruncatedUpdate(rs) : rs \in SeqsUpTo({ RawRect(x, y, w, h, 4) }, MaxRects) }
    \cup { CutText, << >> }

\* what a server may answer to one attempt of capture_screen: no rectangle, the
\* screen in black or in blue, a CopyRect, nothing
ScreenResponses ==
    { UpdateMessage(<< >>), UpdateMessage(<< CopyRectRect >>), << >> }
    \cup { UpdateMessage(<< RawRect(0, 0, width, height, k) >>) : k \in { 0, 2 } }

\* how a read ends that the stream cannot satisfy
FailKinds == { "Timeout", "ConnectionClosed" }

\* the screens of the sessions: one row and one column of MaxDim pixels, and 2 x 2
Screens == { << MaxDim, 1 >>, << 1, MaxDim >>, << 2, 2 >> }

\* the regions a caller asks for: of up to the size of the screen, at the origin
\* or one pixel off it, so inside the screen, across its edge or outside it; and
\* one that is larger than the screen in both directions
Regions ==
    { << x, y, w, h >> : x \in 0..1, y \in 0..1, w \in 1..width, h \in 1..height }
    \cup { << 0, 0, width + 1, height + 1 >> }

(***************************************************************************)
(* A connected session.  Init is the state in which the constructor        *)
(* returns when the initial update was read to its end.                    *)
(***************************************************************************)
Init ==
    /\ pc = "idle"
    /\ password = << >>
    /\ \E sc \in Screens : width = sc[1] /\ height = sc[2]
    /\ pixel_format = PF32
    /\ framebuffer = Zeros(height, width)
    /\ last_frame = Zeros(height, width)
    /\ frame_updated = FALSE
    /\ mouse_pos = << 0, 0 >>
    /\ stream = << >>
    /\ data = << >>
    /\ need = 0
    /\ security_types = << SECURITY_NONE >>
    /\ rects_left = 0
    /\ log = << >>
    /\ exc = NoException
    /\ call = NoCall
    /\ ret = NoFrame
    /\ attempt = 0
    /\ prev_frame = NoFrame
    /\ good_frame = NoFrame
    /\ all_black = TRUE
    /\ rect = << 0, 0, 0, 0 >>
    /\ response = << >>
    /\ host_big_endian = FALSE

connVars == << password, width, height, pixel_format, data, need, security_types,
               rects_left, rect, host_big_endian >>

\* the outcome r of capture_region becomes the state
Outcome(r) ==
    /\ stream' = r.rest
    /\ log' = log \o r.events
    /\ framebuffer' = r.framebuffer
    /\ last_frame' = r.last_frame
    /\ frame_updated' = r.frame_updated

\* client.capture_region(x, y, w, h), called by the user
CaptureRegion ==
    /\ pc = "idle"
    /\ \E g \in Regions :
          LET x == g[1]  y == g[2]  w == g[3]  h == g[4]
          IN  /\ call' = [ name |-> "capture_region", x |-> x, y |-> y, w |-> w, h |-> h ]
              /\ \E send_fails \in BOOLEAN :
                 \E m \in (IF send_fails THEN { << >> } ELSE ResponsesFor(x, y, w, h)) :
                 \E fail_kind \in FailKinds :
                    LET r == capture_region(x, y, w, h, stream \o m, send_fails, fail_kind)
                    IN  /\ fail_kind = "Timeout" \/ r.exc.kind = fail_kind
                        /\ Outcome(r)
                        /\ response' = m
                        /\ exc' = r.exc
                        /\ ret' = r.ret
                        /\ pc' = IF r.exc = NoException THEN "returned" ELSE "raised"
    /\ prev_frame' = framebuffer
    /\ UNCHANGED << connVars, mouse_pos, attempt, good_frame, all_black >>

\* line 128
max_retries == 3

\* a test that is one attempt late
LastAttempt_Mutant(a) == a = max_retries

\* lines 142 and 162: attempt == max_retries - 1
LastAttempt(a) == a = max_retries - 1

\* has_valid_frame, lines 323-325
has_valid_frame == frame_updated /\ last_frame # NoFrame /\ ~AllBlack(last_frame)

\* client.capture_screen(), called by the user: the loop is entered
CallCaptureScreen ==
    /\ pc = "idle"
    /\ pc' = "capture_screen"
    /\ call' = [ name |-> "capture_screen", x |-> 0, y |-> 0, w |-> width, h |-> height ]
    /\ attempt' = 0
    /\ prev_frame' = framebuffer
    /\ good_frame' = IF has_valid_frame THEN last_frame ELSE NoFrame
    /\ all_black' = TRUE
    /\ UNCHANGED << connVars, framebuffer, last_frame, frame_updated, mouse_pos, stream,
                    log, exc, ret, response >>

\* the events of the nudge after attempt a when its first k sends succeed
\* (lines 154-158: mouse_move for even attempts, key_press(0xFFE1) for odd ones)
NudgeMessages(a) ==
    IF a % 2 = 0
    THEN << pack_pointer_event(0, 10 + a * 5, 10 + a * 5) >>
    ELSE << pack_key_event(TRUE, 65505), pack_key_event(FALSE, 65505) >>

\* mouse_move stores the position before it sends
NudgeMousePos(a) == IF a % 2 = 0 THEN << 10 + a * 5, 10 + a * 5 >> ELSE mouse_pos

\* lines 142-146: what the last attempt returns when its region is all black
Fallback(r) ==
    IF r.frame_updated /\ r.last_frame # NoFrame THEN r.last_frame ELSE r.ret

\* one iteration of the loop of capture_screen, lines 130-166
CaptureScreenAttempt ==
    /\ pc = "capture_screen"
    /\ \E send_fails \in BOOLEAN :
       \E m \in (IF send_fails THEN { << >> } ELSE ScreenResponses) :
       \E fail_kind \in FailKinds :
          LET r == capture_region(0, 0, width, height, stream \o m, send_fails, fail_kind)
              last == LastAttempt(attempt)
          IN  /\ fail_kind = "Timeout" \/ r.exc.kind = fail_kind
              /\ stream' = r.rest
              /\ framebuffer' = r.framebuffer
              /\ IF r.exc # NoException
                 THEN \* except Exception: raised again on the last attempt only
                      /\ log' = log \o r.events
                      /\ last_frame' = r.last_frame
                      /\ frame_updated' = r.frame_updated
                      /\ all_black' = FALSE
                      /\ ret' = ret
                      /\ mouse_pos' = mouse_pos
                      /\ IF last
                         THEN pc' = "raised" /\ exc' = r.exc /\ attempt' = attempt
                         ELSE pc' = pc /\ exc' = exc /\ attempt' = attempt + 1
                 ELSE IF ~AllBlack(r.ret)
                 THEN /\ log' = log \o r.events
                      /\ last_frame' = r.ret
                      /\ frame_updated' = TRUE
                      /\ all_black' = FALSE
                      /\ ret' = r.ret
                      /\ mouse_pos' = mouse_pos
                      /\ pc' = "returned" /\ exc' = exc /\ attempt' = attempt
                 ELSE IF last
                 THEN /\ log' = log \o r.events
                      /\ last_frame' = r.last_frame
                      /\ frame_updated' = r.frame_updated
                      /\ all_black' = all_black
                      /\ ret' = Fallback(r)
                      /\ mouse_pos' = mouse_pos
                      /\ pc' = "returned" /\ exc' = exc /\ attempt' = attempt
                 ELSE \* the nudge; an exception of its sends is caught like any other
                      /\ last_frame' = r.last_frame
                      /\ frame_updated' = r.frame_updated
                      /\ all_black' = all_black
                      /\ ret' = ret
                      /\ mouse_pos' = NudgeMousePos(attempt)
                      /\ \E k \in 0..Len(NudgeMessages(attempt)) :
                            log' = log \o r.events
                                   \o [ i \in 1..k |-> SendEv(NudgeMessages(attempt)[i]) ]
                      /\ pc' = pc /\ exc' = exc /\ attempt' = attempt + 1
    /\ UNCHANGED << connVars, call, prev_frame, good_frame, response >>

\* the caller has the result and goes on to its next call (followed here only
\* while no unread bytes of an earlier answer are left in the stream)
NextCall ==
    /\ pc = "returned"
    /\ stream = << >>
    /\ pc' = "idle"
    /\ call' = NoCall
    /\ ret' = NoFrame
    /\ log' = << >>
    /\ attempt' = 0
    /\ prev_frame' = NoFrame
    /\ good_frame' = NoFrame
    /\ all_black' = TRUE
    /\ response' = << >>
    /\ UNCHANGED << connVars, framebuffer, last_frame, frame_updated, mouse_pos, stream, exc >>

Next ==
    \/ CaptureRegion
    \/ CallCaptureScreen
    \/ CaptureScreenAttempt
    \/ NextCall

Spec == Init /\ [][Next]_vars

(***************************************************************************)
(* The rectangle loop of capture_region on its own: a region is requested, *)
(* region_data starts black (line 186), and raw rectangles of any position *)
(* and size arrive.  The first rectangle, when it is taken, covers the     *)
(* region in one colour; the last one is arbitrary.                        *)
(***************************************************************************)
\* the payload of a raw rectangle of n pixels that are all different: pixel i is (9, 7, i)
NumberedPayload(n) == Concat([ i \in 1..n |-> << i, 7, 9, 0 >> ])
\* the payload of a raw rectangle of n pixels of one colour, (1, 1, 1)
PlainPayload(n) == Concat([ i \in 1..n |-> << 1, 1, 1, 0 >> ])

\* the regions requested: empty ones included
ClipRegions == { << x, y, w, h >> : x \in 0..1, y \in 0..1, w \in 0..MaxDim, h \in 0..MaxDim }
\* the rectangles received: before, inside, across and beyond the region
ClipRects ==
    { << rx, ry, rw, rh >> : rx \in 0..(MaxDim + 1), ry \in 0..(MaxDim + 1),
                             rw \in 0..MaxDim, rh \in 0..MaxDim }

InitClip ==
    /\ pc = "rectangles"
    /\ password = << >>
    /\ width = MaxDim /\ height = MaxDim
    /\ pixel_format = PF32
    /\ framebuffer = Zeros(height, width)
    /\ last_frame = Zeros(height, width)
    /\ frame_updated = FALSE
    /\ mouse_pos = << 0, 0 >>
    /\ stream = << >>
    /\ data = << >>
    /\ need = 0
    /\ security_types = << SECURITY_NONE >>
    /\ rects_left = 2
    /\ log = << >>
    /\ exc = NoException
    /\ \E g \in ClipRegions :
          /\ call = [ name |-> "capture_region", x |-> g[1], y |-> g[2], w |-> g[3], h |-> g[4] ]
          /\ ret = Zeros(g[4], g[3])
    /\ attempt = 0
    /\ prev_frame = NoFrame
    /\ good_frame = NoFrame
    /\ all_black = TRUE
    /\ rect = << 0, 0, 0, 0 >>
    /\ response = << >>
    /\ host_big_endian = FALSE

\* lines 190-216 for the rectangle rc with payload d; ret is region_data
Rectangle(rc, d) ==
    /\ rect' = rc
    /\ data' = d
    /\ prev_frame' = ret
    /\ ret' = Composite(ret, call.x, call.y, call.w, call.h, rc[1], rc[2], rc[3], rc[4],
                        ParseRawPixels(d, rc[3], rc[4], pixel_format.bits_per_pixel \div 8))
    /\ log' = log \o << ReadEv("rectangle header", 12), ReadEv("pixel data", Len(d)) >>

\* a first rectangle that is the region itself, in one colour
CoverRectangle ==
    /\ pc = "rectangles" /\ rects_left = 2
    /\ Rectangle(<< call.x, call.y, call.w, call.h >>, PlainPayload(call.w * call.h))
    /\ rects_left' = 1
    /\ UNCHANGED << pc, password, width, height, pixel_format, framebuffer, last_frame,
                    frame_updated, mouse_pos, stream, need, security_types, exc, call,
                    attempt, good_frame, all_black, response, host_big_endian >>

\* the last rectangle, anywhere
ClipRectangle ==
    /\ pc = "rectangles" /\ rects_left >= 1
    /\ \E rc \in ClipRects : Rectangle(rc, NumberedPayload(rc[3] * rc[4]))
    /\ rects_left' = 0
    /\ pc' = "clipped"
    /\ UNCHANGED << password, width, height, pixel_format, framebuffer, last_frame,
                    frame_updated, mouse_pos, stream, need, security_types, exc, call,
                    attempt, good_frame, all_black, response, host_big_endian >>

NextClip ==
    \/ CoverRectangle
    \/ ClipRectangle

SpecClip == InitClip /\ [][NextClip]_vars

(***************************************************************************)
(* C7.  For every region (x, y, w, h) and every raw rectangle              *)
(* (rx, ry, rw, rh): the result pixel at region coordinate (i, j) is the   *)
(* rectangle's pixel at (i + y - ry, j + x - rx) exactly when the screen   *)
(* point (x + j, y + i) lies inside both the region and the rectangle;     *)
(* every other result pixel is as it was before the rectangle; a rectangle *)
(* without overlap changes nothing and raises nothing.  (Coordinates are   *)
(* 0-based in the claim, sequences 1-based.)                               *)
(***************************************************************************)
C7_Clipping ==
    pc = "clipped" =>
      LET x == call.x   y == call.y   w == call.w   h == call.h
          rx == rect[1]  ry == rect[2]  rw == rect[3]  rh == rect[4]
          \* pixel (a, b) of the rectangle: the payload is rows of rw pixels B, G, R, X
          RectPixel(a, b) == << data[4 * (a * rw + b) + 3], data[4 * (a * rw + b) + 2],
                                data[4 * (a * rw + b) + 1] >>
      IN  /\ exc = NoException
          /\ Len(ret) = h
          /\ \A i \in 0..(h - 1) :
                /\ Len(ret[i + 1]) = w
                /\ \A j \in 0..(w - 1) :
                      IF /\ rx <= x + j /\ x + j < rx + rw
                         /\ ry <= y + i /\ y + i < ry + rh
                      THEN ret[i + 1][j + 1] = RectPixel(i + y - ry, j + x - rx)
                      ELSE ret[i + 1][j + 1] = prev_frame[i + 1][j + 1]

\* a rectangle that starts left of and above the region and covers a part of it,
\* over a region an earlier rectangle has painted
C7_Witness ==
    /\ pc = "clipped"
    /\ rect[1] < call.x /\ rect[2] < call.y
    /\ call.w = 2 /\ call.h = 2
    /\ rect[1] + rect[3] = call.x + 1 /\ rect[2] + rect[4] = call.y + 1
    /\ prev_frame[1][1] = << 1, 1, 1 >>
    /\ ret[1][1] # prev_frame[1][1]
    /\ ret[2][2] = << 1, 1, 1 >>

(***************************************************************************)
(* C8.  After capture_region has returned for a region that is not exactly *)
(* the full screen: a framebuffer pixel inside the region whose incoming   *)
(* pixel is black keeps its previous value, one whose incoming pixel is    *)
(* not black equals the incoming pixel, and a framebuffer pixel outside    *)
(* the region is unchanged.                                                *)
(***************************************************************************)
C8_PartialMerge ==
    (/\ pc = "returned" /\ call.name = "capture_region"
     /\ << call.x, call.y, call.w, call.h >> # << 0, 0, width, height >>)
    => /\ Len(framebuffer) = height
       /\ \A r \in 0..(height - 1) :
             /\ Len(framebuffer[r + 1]) = width
             /\ \A c \in 0..(width - 1) :
                   LET inside == /\ call.x <= c /\ c < call.x + call.w
                                 /\ call.y <= r /\ r < call.y + call.h
                   IN  IF inside /\ ret[r - call.y + 1][c - call.x + 1] # << 0, 0, 0 >>
                       THEN framebuffer[r + 1][c + 1] = ret[r - call.y + 1][c - call.x + 1]
                       ELSE framebuffer[r + 1][c + 1] = prev_frame[r + 1][c + 1]

\* a partial update with a black pixel over a coloured one and a coloured pixel
\* over one of another colour
C8_Witness ==
    /\ pc = "returned" /\ call.name = "capture_region"
    /\ width = 2 /\ height = 2
    /\ call.x = 0 /\ call.y = 0 /\ call.w = 2 /\ call.h = 1
    /\ ret[1][1] = << 0, 0, 0 >> /\ prev_frame[1][1] # << 0, 0, 0 >>
    /\ ret[1][2] # << 0, 0, 0 >> /\ prev_frame[1][2] # << 0, 0, 0 >>
    /\ ret[1][2] # prev_frame[1][2]

(***************************************************************************)
(* C9.  After capture_region has returned for the region                   *)
(* (0, 0, width, height): the framebuffer equals the returned array, black *)
(* pixels included, and the cache holds the same content and is marked     *)
(* updated.  For a region that differs from it in x, y, width or height    *)
(* the framebuffer is not replaced: it keeps the shape of the screen, and  *)
(* keeps every pixel for which the returned array is black.                *)
(***************************************************************************)
C9_FullScreenMerge ==
    (pc = "returned" /\ call.name = "capture_region") =>
      IF call.x = 0 /\ call.y = 0 /\ call.w = width /\ call.h = height
      THEN framebuffer = ret /\ last_frame = ret /\ frame_updated
      ELSE /\ Len(framebuffer) = height
           /\ \A r \in 1..height : Len(framebuffer[r]) = width
           /\ \A i \in 1..call.h : \A j \in 1..call.w :
                 (i + call.y <= height /\ j + call.x <= width /\ ret[i][j] = << 0, 0, 0 >>)
                 => framebuffer[i + call.y][j + call.x] = prev_frame[i + call.y][j + call.x]

\* a full-screen update that turns a coloured pixel black
C9_Witness ==
    /\ pc = "returned" /\ call.name = "capture_region"
    /\ call.x = 0 /\ call.y = 0 /\ call.w = width /\ call.h = height
    /\ \E r \in 1..height : \E c \in 1..width :
          ret[r][c] = << 0, 0, 0 >> /\ prev_frame[r][c] # << 0, 0, 0 >>

(***************************************************************************)
(* C10.  When capture_screen returns after every one of its attempts gave  *)
(* an all-black region: it returns the non-black frame that was cached     *)
(* when it was called if there was one, and an all-black array only if     *)
(* there was none.                                                         *)
(***************************************************************************)
C10_FallbackToCachedFrame ==
    (pc = "returned" /\ call.name = "capture_screen" /\ all_black) =>
      IF good_frame # NoFrame
      THEN ret = good_frame
      ELSE \A r \in DOMAIN ret : \A c \in DOMAIN ret[r] : ret[r][c] = << 0, 0, 0 >>

(***************************************************************************)
(* History of a session operation: the update requests and the input       *)
(* events among the messages sent.                                         *)
(***************************************************************************)
IsUpdateRequest(e) == e.op = "send" /\ e.bytes[1] = 3
IsInputEvent(e) == e.op = "send" /\ e.bytes[1] \in { 4, 5 }
UpdateRequests == { i \in DOMAIN log : IsUpdateRequest(log[i]) }
InputEvents == { i \in DOMAIN log : IsInputEvent(log[i]) }

(***************************************************************************)
(* C11.  A call of capture_screen sends at most 3 update requests whatever *)
(* the server answers, and every iteration of its loop either ends the     *)
(* call or starts the next of at most 3 attempts, so the call terminates.  *)
(* When it returns after every attempt gave an all-black region it has     *)
(* sent exactly 3 update requests, and every input event it sent lies      *)
(* between two of them: none after the last.                               *)
(***************************************************************************)
C11_RetryTermination ==
    /\ [](call.name = "capture_screen" =>
            /\ Cardinality(UpdateRequests) <= 3
            /\ pc = "capture_screen" => attempt < 3
            /\ (pc = "returned" /\ all_black) =>
                  /\ Cardinality(UpdateRequests) = 3
                  /\ \A i \in InputEvents :
                        /\ \E j \in UpdateRequests : j < i
                        /\ \E j \in UpdateRequests : i < j)
    /\ [][pc = "capture_screen" =>
            \/ pc' \in { "returned", "raised" }
            \/ pc' = "capture_screen" /\ attempt' = attempt + 1]_vars

\* three all-black attempts, with the pointer nudge and both key events between them
C11_Witness ==
    /\ pc = "returned" /\ call.name = "capture_screen" /\ all_black
    /\ Cardinality(UpdateRequests) = 3
    /\ Cardinality(InputEvents) = 3

(***************************************************************************)
(* C12.  capture_screen does not go on after an error: while its loop is   *)
(* still running, no attempt has raised.  (all_black is FALSE in the loop  *)
(* exactly when an earlier attempt's capture_region raised.)               *)
(***************************************************************************)
C12_ErrorsPropagate ==
    (call.name = "capture_screen" /\ pc = "capture_screen") => all_black

(***************************************************************************)
(* C13.  A rectangle that capture_region has composited lies inside the    *)
(* screen, x + width <= screen width and y + height <= screen height; a    *)
(* rectangle header that violates a bound makes the call fail and leaves   *)
(* the array as it was.                                                    *)
(***************************************************************************)
C13_RectangleWithinScreen ==
    pc = "clipped" =>
      \/ rect[1] + rect[3] <= width /\ rect[2] + rect[4] <= height
      \/ exc # NoException /\ ret = prev_frame

C15_PartialProgressKept ==
    (/\ pc = "raised" /\ call.name = "capture_region"
     /\ Len(log) = 5
     /\ log[4].op = "read" /\ log[4].label = "pixel data"
     /\ log[5].op = "read" /\ log[5].label = "rectangle header")
    => LET rx == response[5] * 256 + response[6]
           ry == response[7] * 256 + response[8]
           rw == response[9] * 256 + response[10]
           rh == response[11] * 256 + response[12]
           Pixel(r, c) == << response[16 + 4 * (r * rw + c) + 3],
                             response[16 + 4 * (r * rw + c) + 2],
                             response[16 + 4 * (r * rw + c) + 1] >>
       IN  \A r \in 0..(rh - 1) : \A c \in 0..(rw - 1) :
              (/\ Pixel(r, c) # << 0, 0, 0 >>
               /\ rx + c < width /\ ry + r < height
               /\ call.x <= rx + c /\ rx + c < call.x + call.w
               /\ call.y <= ry + r /\ ry + r < call.y + call.h)
              => framebuffer[ry + r + 1][rx + c + 1] = Pixel(r, c)

(***************************************************************************)
(* client.py: _recv_with_timeout(size) on its own.  The peer has sent      *)
(* `response` and then closed; the bytes arrive in chunks of any size.     *)
(***************************************************************************)
\* what the peer sends: the bytes 1, 2, ..., fewer or more than are asked for
PeerBytes == { [ i \in 1..len |-> i ] : len \in 0..(MaxRead + 1) }

InitRecv ==
    /\ pc = "receive"
    /\ password = << >>
    /\ width = 1 /\ height = 1
    /\ pixel_format = PF32
    /\ framebuffer = Zeros(height, width)
    /\ last_frame = Zeros(height, width)
    /\ frame_updated = FALSE
    /\ mouse_pos = << 0, 0 >>
    /\ response \in PeerBytes
    /\ stream = response
    /\ data = << >>
    /\ need \in 0..MaxRead
    /\ security_types = << SECURITY_NONE >>
    /\ rects_left = 0
    /\ log = << ReadEv("receive", need) >>
    /\ exc = NoException
    /\ call = NoCall
    /\ ret = NoFrame
    /\ attempt = 0
    /\ prev_frame = NoFrame
    /\ good_frame = NoFrame
    /\ all_black = TRUE
    /\ rect = << 0, 0, 0, 0 >>
    /\ host_big_endian = FALSE

\* line 275: the loop has ended, data is returned
RecvReturn ==
    /\ ReadDone("receive")
    /\ pc' = "returned"
    /\ ret' = data
    /\ UNCHANGED << password, width, height, pixel_format, framebuffer, last_frame,
                    frame_updated, mouse_pos, stream, data, need, security_types,
                    rects_left, log, exc, call, attempt, prev_frame, good_frame,
                    all_black, rect, response, host_big_endian >>

NextRecv ==
    \/ RecvChunk
    \/ RecvClosed
    \/ RecvTimeout
    \/ RecvReturn

SpecRecv == InitRecv /\ [][NextRecv]_vars

(***************************************************************************)
(* C16.  _recv_all(n), however the bytes are split into chunks: while it   *)
(* runs, what it has accumulated followed by what is still unread is what  *)
(* the peer sent, and it never holds more than n bytes; when it returns,   *)
(* the result is exactly the first n bytes sent, in order, and the rest    *)
(* is unread; it raises the connection-closed error only when a recv       *)
(* returned b"" before n bytes had arrived, which the peer's sending       *)
(* fewer than n bytes causes, and never returns a short result.            *)
(***************************************************************************)
C16_ReadExact ==
    LET n == log[1].n
    IN  /\ pc = "receive" => (data \o stream = response /\ Len(data) <= n)
        /\ pc = "returned" =>
              /\ Len(ret) = n
              /\ \A i \in 1..n : ret[i] = response[i]
              /\ stream = [ i \in 1..(Len(response) - n) |-> response[n + i] ]
        /\ (pc = "raised" /\ exc.kind = "ConnectionClosed") =>
              (Len(response) < n /\ stream = << >>)
        /\ Len(response) < n => pc # "returned"

\* a read of 3 bytes that returned and left a later byte unread
C16_Witness ==
    /\ pc = "returned"
    /\ log[1].n = 3 /\ ret = << 1, 2, 3 >>
    /\ stream = << 4 >>

(***************************************************************************)
(* client.py: _parse_raw_pixels on its own: a raw rectangle of rect[3] x   *)
(* rect[4] pixels with payload `data` is decoded under the negotiated      *)
(* pixel format, on a little-endian or a big-endian host.                  *)
(***************************************************************************)
\* the bytes of a 16-bit pixel: the ends of the range and the edges of the channels
PixelBytes == { 0, 1, 7, 8, 31, 224, 248, 255 }

\* 32-bit formats that differ in the fields the decoder might look at
Formats32 == { PF32, [ PF32 EXCEPT !.big_endian = 1 ],
               [ PF32 EXCEPT !.red_shift = 0, !.blue_shift = 16 ] }

\* the rectangles decoded: one 16-bit pixel of any two bytes; w x h 32-bit pixels,
\* all different, or red, or blue, or striped
DecodeInputs ==
    { [ pf |-> PF16, w |-> 1, h |-> 1, d |-> << b0, b1 >> ] :
        b0 \in PixelBytes, b1 \in PixelBytes }
    \cup UNION { { [ pf |-> pf, w |-> w, h |-> h, d |-> NumberedPayload(w * h) ],
                   [ pf |-> pf, w |-> w, h |-> h, d |-> Payload(w, h, 1) ],
                   [ pf |-> pf, w |-> w, h |-> h, d |-> Payload(w, h, 2) ],
                   [ pf |-> pf, w |-> w, h |-> h, d |-> Payload(w, h, 4) ] } :
                 pf \in Formats32, w \in 1..MaxDim, h \in 1..MaxDim }

InitDecode ==
    /\ pc = "decode"
    /\ password = << >>
    /\ width = MaxDim /\ height = MaxDim
    /\ \E in \in DecodeInputs :
          /\ pixel_format = in.pf
          /\ rect = << 0, 0, in.w, in.h >>
          /\ data = in.d
    /\ host_big_endian \in BOOLEAN
    /\ framebuffer = Zeros(height, width)
    /\ last_frame = Zeros(height, width)
    /\ frame_updated = FALSE
    /\ mouse_pos = << 0, 0 >>
    /\ stream = << >>
    /\ need = 0
    /\ security_types = << SECURITY_NONE >>
    /\ rects_left = 0
    /\ log = << >>
    /\ exc = NoException
    /\ call = NoCall
    /\ ret = NoFrame
    /\ attempt = 0
    /\ prev_frame = NoFrame
    /\ good_frame = NoFrame
    /\ all_black = TRUE
    /\ response = << >>

\* pixels = self._parse_raw_pixels(pixel_data, rect_width, rect_height)
DecodePixels ==
    /\ pc = "decode"
    /\ pc' = "decoded"
    /\ ret' = ParseRawPixels(data, rect[3], rect[4], pixel_format.bits_per_pixel \div 8)
    /\ UNCHANGED << password, width, height, pixel_format, framebuffer, last_frame,
                    frame_updated, mouse_pos, stream, data, need, security_types,
                    rects_left, log, exc, call, attempt, prev_frame, good_frame,
                    all_black, rect, response, host_big_endian >>

NextDecode == DecodePixels

SpecDecode == InitDecode /\ [][NextDecode]_vars

(***************************************************************************)
(* C17.  A 16-bit pixel with wire bytes (b0, b1) is decoded as the         *)
(* big-endian word v = 256 * b0 + b1 in RGB565 layout: R is bits 15-11 in  *)
(* the top 5 bits of a byte, G is bits 10-5 in the top 6 bits, B is bits   *)
(* 4-0 in the top 5 bits; 0x0000 gives (0, 0, 0) and 0xFFFF gives          *)
(* (248, 252, 248).                                                        *)
(***************************************************************************)
C17_Decode16BigEndian ==
    (pc = "decoded" /\ pixel_format.bits_per_pixel = 16) =>
      LET v == 256 * data[1] + data[2]
      IN  /\ ret[1][1] = << (v \div 2048) * 8, ((v \div 32) % 64) * 4, (v % 32) * 8 >>
          /\ data = << 0, 0 >> => ret[1][1] = << 0, 0, 0 >>
          /\ data = << 255, 255 >> => ret[1][1] = << 248, 252, 248 >>

(***************************************************************************)
(* C18.  A raw rectangle of w x h pixels of 4 bytes is decoded to h rows   *)
(* of w pixels; the pixel at row r, column c is (byte 2, byte 1, byte 0)   *)
(* of the 4 bytes at offset 4 * (r * w + c), the fourth byte is dropped,   *)
(* whatever the shifts and the endianness of the pixel format and of the   *)
(* host; 00 00 FF FF is red and FF 00 00 FF is blue.                       *)
(***************************************************************************)
C18_Decode32 ==
    (pc = "decoded" /\ pixel_format.bits_per_pixel = 32) =>
      LET w == rect[3]  h == rect[4]
      IN  /\ Len(ret) = h
          /\ \A r \in 0..(h - 1) :
                /\ Len(ret[r + 1]) = w
                /\ \A c \in 0..(w - 1) :
                      LET off == 4 * (r * w + c)
                      IN  /\ ret[r + 1][c + 1] = << data[off + 3], data[off + 2], data[off + 1] >>
                          /\ SubBytes(data, off + 1, off + 4) = << 0, 0, 255, 255 >>
                                => ret[r + 1][c + 1] = << 255, 0, 0 >>
                          /\ SubBytes(data, off + 1, off + 4) = << 255, 0, 0, 255 >>
                                => ret[r + 1][c + 1] = << 0, 0, 255 >>

\* four different pixels under a format that declares big-endian pixels
C18_Witness ==
    /\ pc = "decoded" /\ pixel_format.bits_per_pixel = 32
    /\ pixel_format.big_endian = 1
    /\ rect[3] = 2 /\ rect[4] = 2
    /\ ret[2][1] = << 9, 7, 3 >>

(***************************************************************************)
(* protocol.py: PixelFormat.pack and PixelFormat.unpack on their own: a    *)
(* format is packed and the result unpacked; a 16-byte record is unpacked  *)
(* and the result packed.                                                  *)
(***************************************************************************)
\* formats whose fields fit the layout: the ends of each range and values between
FieldFormats ==
    [ bits_per_pixel : { 0, 32, 255 }, depth : { 24, 255 }, big_endian : { 0, 1 },
      true_colour : { 0, 1 }, red_max : { 0, 255, 256, 65535 }, green_max : { 31, 65535 },
      blue_max : { 255, 65280 }, red_shift : { 0, 16 }, green_shift : { 8, 255 },
      blue_shift : { 0, 255 } ]

\* records of 16 bytes that end in three zero bytes: all zero, all 255, all
\* different, and one non-zero byte at each place
FormatRecords ==
    { [ i \in 1..16 |-> 0 ], [ i \in 1..16 |-> IF i <= 13 THEN 255 ELSE 0 ],
      [ i \in 1..16 |-> IF i <= 13 THEN i ELSE 0 ] }
    \cup { [ i \in 1..16 |-> IF i = k THEN v ELSE 0 ] : k \in 1..13, v \in { 1, 128, 255 } }

InitPixelFormat ==
    /\ \/ pc = "pack" /\ pixel_format \in FieldFormats /\ data = << >>
       \/ pc = "unpack" /\ pixel_format = NoPixelFormat /\ data \in FormatRecords
    /\ password = << >>
    /\ width = 0 /\ height = 0
    /\ framebuffer = NoFrame
    /\ last_frame = NoFrame
    /\ frame_updated = FALSE
    /\ mouse_pos = << 0, 0 >>
    /\ stream = << >>
    /\ need = 0
    /\ security_types = << >>
    /\ rects_left = 0
    /\ log = << >>
    /\ exc = NoException
    /\ call = NoCall
    /\ ret = NoFrame
    /\ attempt = 0
    /\ prev_frame = NoFrame
    /\ good_frame = NoFrame
    /\ all_black = TRUE
    /\ rect = << 0, 0, 0, 0 >>
    /\ response = << >>
    /\ host_big_endian = FALSE

\* PixelFormat.unpack(pf.pack()): data is the packed record, ret the format unpacked from it
PackThenUnpack ==
    /\ pc = "pack"
    /\ pc' = "packed"
    /\ data' = PixelFormatPack(pixel_format)
    /\ ret' = PixelFormatUnpack(data')
    /\ UNCHANGED << password, width, height, pixel_format, framebuffer, last_frame,
                    frame_updated, mouse_pos, stream, need, security_types,
                    rects_left, log, exc, call, attempt, prev_frame, good_frame,
                    all_black, rect, response, host_big_endian >>

\* PixelFormat.unpack(d).pack(): pixel_format is the format unpacked, ret the record packed from it
UnpackThenPack ==
    /\ pc = "unpack"
    /\ pc' = "unpacked"
    /\ pixel_format' = PixelFormatUnpack(data)
    /\ ret' = PixelFormatPack(pixel_format')
    /\ UNCHANGED << password, width, height, framebuffer, last_frame,
                    frame_updated, mouse_pos, stream, data, need, security_types,
                    rects_left, log, exc, call, attempt, prev_frame, good_frame,
                    all_black, rect, response, host_big_endian >>

NextPixelFormat ==
    \/ PackThenUnpack
    \/ UnpackThenPack

SpecPixelFormat == InitPixelFormat /\ [][NextPixelFormat]_vars

(***************************************************************************)
(* C19.  For every format whose fields fit the 16-byte layout,             *)
(* unpack(pack(pf)) has all ten fields equal to those of pf; for every     *)
(* 16-byte record d that ends in three zero bytes, pack(unpack(d)) = d.    *)
(***************************************************************************)
C19_PixelFormatRoundTrip ==
    /\ pc = "packed" =>
          /\ Len(data) = 16
          /\ DOMAIN ret = { "bits_per_pixel", "depth", "big_endian", "true_colour",
                            "red_max", "green_max", "blue_max",
                            "red_shift", "green_shift", "blue_shift" }
          /\ \A f \in DOMAIN ret : ret[f] = pixel_format[f]
    /\ pc = "unpacked" => ret = data

\* a maximum that needs both of its bytes, in network order
C19_Witness ==
    /\ pc = "packed"
    /\ pixel_format.red_max = 256 /\ pixel_format.blue_max = 65280
    /\ data[5] = 1 /\ data[6] = 0
    /\ ret.red_max = 256

(***************************************************************************)
(* client.py: the pointer operations of a connected session, called one    *)
(* after another until MaxEvents messages were sent or one of them raised. *)
(***************************************************************************)
\* where the caller moves the pointer: two points, and one beyond the 16 bits of a coordinate
MovePoints == { << 1, 2 >>, << 3, 4 >>, << 65536, 0 >> }
\* left and right button
Buttons == { 1, 4 }

InitInput ==
    /\ pc = "idle"
    /\ password = << >>
    /\ width = 1 /\ height = 1
    /\ pixel_format = PF32
    /\ framebuffer = Zeros(height, width)
    /\ last_frame = Zeros(height, width)
    /\ frame_updated = FALSE
    /\ mouse_pos = << 0, 0 >>
    /\ stream = << >>
    /\ data = << >>
    /\ need = 0
    /\ security_types = << SECURITY_NONE >>
    /\ rects_left = 0
    /\ log = << >>
    /\ exc = NoException
    /\ call = NoCall
    /\ ret = NoFrame
    /\ attempt = 0
    /\ prev_frame = NoFrame
    /\ good_frame = NoFrame
    /\ all_black = TRUE
    /\ rect = << 0, 0, 0, 0 >>
    /\ response = << >>
    /\ host_big_endian = FALSE

inputVars == << password, width, height, pixel_format, framebuffer, last_frame,
                frame_updated, stream, data, need, security_types, rects_left, ret,
                attempt, prev_frame, good_frame, all_black, rect, response,
                host_big_endian >>

\* struct.pack("!B B HH", ...) accepts the coordinates
FitsU16(p) == p[1] \in 0..65535 /\ p[2] \in 0..65535

\* self.socket.send(m) for each m of msgs in turn: all are sent and the operation
\* returns, or one send raises after the earlier ones were sent
SendAll(msgs) ==
    \/ /\ log' = log \o [ i \in 1..Len(msgs) |-> SendEv(msgs[i]) ]
       /\ pc' = "idle"
       /\ exc' = exc
    \/ \E j \in 1..Len(msgs) :
          /\ log' = log \o [ i \in 1..(j - 1) |-> SendEv(msgs[i]) ]
          /\ pc' = "raised"
          /\ exc' = [ kind |-> "SendFailed", detail |-> << >> ]

\* mouse_move(x, y), lines 327-332: the position is stored, then the event is packed and sent
MouseMove ==
    /\ pc = "idle" /\ Len(log) < MaxEvents
    /\ \E p \in MovePoints :
          /\ call' = [ name |-> "mouse_move", x |-> p[1], y |-> p[2] ]
          /\ mouse_pos' = p
          /\ IF FitsU16(p)
             THEN SendAll(<< pack_pointer_event(0, p[1], p[2]) >>)
             ELSE /\ log' = log
                  /\ pc' = "raised"
                  /\ exc' = [ kind |-> "StructError", detail |-> << >> ]
    /\ UNCHANGED inputVars

\* mouse_down(button), lines 340-345
MouseDown ==
    /\ pc = "idle" /\ Len(log) < MaxEvents
    /\ \E b \in Buttons :
          /\ call' = [ name |-> "mouse_down", button |-> b ]
          /\ SendAll(<< pack_pointer_event(b, mouse_pos[1], mouse_pos[2]) >>)
    /\ UNCHANGED << inputVars, mouse_pos >>

\* mouse_up(button), lines 347-352
MouseUp ==
    /\ pc = "idle" /\ Len(log) < MaxEvents
    /\ \E b \in Buttons :
          /\ call' = [ name |-> "mouse_up", button |-> b ]
          /\ SendAll(<< pack_pointer_event(0, mouse_pos[1], mouse_pos[2]) >>)
    /\ UNCHANGED << inputVars, mouse_pos >>

\* mouse_roll_up(), lines 354-359
MouseRollUp ==
    /\ pc = "idle" /\ Len(log) < MaxEvents
    /\ call' = [ name |-> "mouse_roll_up" ]
    /\ SendAll(<< pack_pointer_event(8, mouse_pos[1], mouse_pos[2]),
                  pack_pointer_event(0, mouse_pos[1], mouse_pos[2]) >>)
    /\ UNCHANGED << inputVars, mouse_pos >>

\* mouse_roll_down(), lines 361-366
MouseRollDown ==
    /\ pc = "idle" /\ Len(log) < MaxEvents
    /\ call' = [ name |-> "mouse_roll_down" ]
    /\ SendAll(<< pack_pointer_event(16, mouse_pos[1], mouse_pos[2]),
                  pack_pointer_event(0, mouse_pos[1], mouse_pos[2]) >>)
    /\ UNCHANGED << inputVars, mouse_pos >>

NextInput ==
    \/ MouseMove
    \/ MouseDown
    \/ MouseUp
    \/ MouseRollUp
    \/ MouseRollDown

SpecInput == InitInput /\ [][NextInput]_vars

(***************************************************************************)
(* History of the pointer operations: the pointer events sent, the bytes   *)
(* of the latest, and the event that a given mask and position make.       *)
(***************************************************************************)
PointerEvents == { i \in DOMAIN log : log[i].op = "send" /\ log[i].bytes[1] = 5 }
Latest == log[CHOOSE i \in PointerEvents : \A j \in PointerEvents : j <= i].bytes
Event(mask, p) == [ op |-> "send", label |-> "",
                    bytes |-> << 5, mask, p[1] \div 256, p[1] % 256,
                                 p[2] \div 256, p[2] % 256 >>, n |-> 6 ]

(***************************************************************************)
(* C20.  After any sequence of pointer operations the stored position is   *)
(* the (x, y) of the most recent pointer event sent.  An operation that    *)
(* returns has sent: mouse_move(x, y) one event with mask 0 at (x, y);     *)
(* mouse_down(b) one with mask b and mouse_up(b) one with mask 0 at the    *)
(* stored position; a scroll one with mask 8 (up) or 16 (down) and then    *)
(* one with mask 0 at the stored position; and only mouse_move has changed *)
(* the stored position.                                                    *)
(***************************************************************************)
C20_CursorTracking ==
    /\ [](PointerEvents # { } =>
            mouse_pos = << Latest[3] * 256 + Latest[4], Latest[5] * 256 + Latest[6] >>)
    /\ [][pc' = "idle" =>
            CASE call'.name = "mouse_move" ->
                    /\ mouse_pos' = << call'.x, call'.y >>
                    /\ log' = Append(log, Event(0, mouse_pos'))
              [] call'.name = "mouse_down" ->
                    /\ mouse_pos' = mouse_pos
                    /\ log' = Append(log, Event(call'.button, mouse_pos))
              [] call'.name = "mouse_up" ->
                    /\ mouse_pos' = mouse_pos
                    /\ log' = Append(log, Event(0, mouse_pos))
              [] call'.name = "mouse_roll_up" ->
                    /\ mouse_pos' = mouse_pos
                    /\ log' = log \o << Event(8, mouse_pos), Event(0, mouse_pos) >>
              [] call'.name = "mouse_roll_down" ->
                    /\ mouse_pos' = mouse_pos
                    /\ log' = log \o << Event(16, mouse_pos), Event(0, mouse_pos) >>
              [] OTHER -> FALSE]_vars


(***************************************************************************)
(* C21.  The framebuffer has height rows of width pixels in every state.   *)
(* When capture_region(x, y, w, h) has returned, the returned array has    *)
(* exactly h rows of w pixels of 3 channels, also when the region is       *)
(* larger than the screen; and every framebuffer pixel then either keeps   *)
(* its value or holds the pixel of the returned array at its place in the  *)
(* region, so nothing of the region beyond the screen is written.          *)
(***************************************************************************)
C21_RegionShape ==
    /\ Len(framebuffer) = height
    /\ \A r \in 1..height : Len(framebuffer[r]) = width
    /\ (pc = "returned" /\ call.name = "capture_region") =>
          /\ Len(ret) = call.h
          /\ \A i \in 1..call.h :
                /\ Len(ret[i]) = call.w
                /\ \A j \in 1..call.w : Len(ret[i][j]) = 3
          /\ \A r \in 1..height : \A c \in 1..width :
                \/ framebuffer[r][c] = prev_frame[r][c]
                \/ /\ call.y < r /\ r <= call.y + call.h
                   /\ call.x < c /\ c <= call.x + call.w
                   /\ framebuffer[r][c] = ret[r - call.y][c - call.x]

\* a region larger than the screen was returned, with a coloured pixel beyond
\* the screen, and changed a pixel of the framebuffer
C21_Witness ==
    /\ pc = "returned" /\ call.name = "capture_region"
    /\ call.w > width /\ call.h > height
    /\ ret[call.h][call.w] # << 0, 0, 0 >>
    /\ framebuffer # prev_frame


(***************************************************************************)
(* client.py: capture_region, lines 181 and 188-199: the rectangles that   *)
(* the loop reads from a response s, as << rect_x, rect_y, rect_width,     *)
(* rect_height >>, each followed by its raw pixel data.                    *)
(***************************************************************************)
RECURSIVE RectanglesFrom(_, _)
RectanglesFrom(s, n) ==
    IF n = 0 \/ Len(s) < 12 THEN << >>
    ELSE LET rect_x == UnpackU16(SubBytes(s, 1, 2))
             rect_y == UnpackU16(SubBytes(s, 3, 4))
             rect_width == UnpackU16(SubBytes(s, 5, 6))
             rect_height == UnpackU16(SubBytes(s, 7, 8))
             pixel_data_size == rect_width * rect_height * (pixel_format.bits_per_pixel \div 8)
         IN  << << rect_x, rect_y, rect_width, rect_height >> >>
             \o RectanglesFrom(Drop(s, 12 + pixel_data_size), n - 1)

ResponseRectangles ==
    IF Len(response) < 4 THEN << >>
    ELSE RectanglesFrom(Drop(response, 4), UnpackU16(SubBytes(response, 3, 4)))

\* the framebuffer pixel of row r, column c (0-based) lies in a rectangle of the response
Covered(r, c) ==
    \E k \in DOMAIN ResponseRectangles :
        LET q == ResponseRectangles[k]
        IN  /\ q[1] <= c /\ c < q[1] + q[3]
            /\ q[2] <= r /\ r < q[2] + q[4]

(***************************************************************************)
(* C22.  After capture_region has returned, every framebuffer pixel that   *)
(* no rectangle of the server's response covers has the value it had       *)
(* before the request; so after a response with zero rectangles the        *)
(* framebuffer and the cache are the framebuffer of before the request.    *)
(***************************************************************************)
C22_UncoveredPixelsKept ==
    (pc = "returned" /\ call.name = "capture_region") =>
       /\ \A r \in 0..(height - 1) : \A c \in 0..(width - 1) :
             ~Covered(r, c) => framebuffer[r + 1][c + 1] = prev_frame[r + 1][c + 1]
       /\ ResponseRectangles = << >> => (framebuffer = prev_frame /\ last_frame = prev_frame)


(***************************************************************************)
(* C23.  At the step on which the constructor returns, the response to the *)
(* initial update request has been consumed completely (no byte of it is   *)
(* left on the stream) or has not been begun (the constructor returns from *)
(* the first read of the response without having received a byte of it),   *)
(* so that the next read on the stream starts at a message boundary.       *)
(***************************************************************************)
C23_StreamSynchronised ==
    [][ (pc # "done" /\ pc' = "done") =>
           \/ stream' = << >>
           \/ pc = "initial framebuffer update response" /\ data = << >> ]_vars


(***************************************************************************)
(* C24.  No step of capture_screen changes the stored cursor position, so  *)
(* that a mouse_down after capture_screen has returned is sent at the      *)
(* position at which one before the call was sent.                         *)
(***************************************************************************)
C24_CursorKeptByCaptureScreen ==
    [][ pc = "capture_screen" => mouse_pos' = mouse_pos ]_vars

=============================================================================
